---- MODULE Spec2Model ----
(***************************************************************************)
(* AviaConnector TypeScript SDK.                                           *)
(*                                                                         *)
(* Part I  : WebSocketTransport (src/src/transport.ts), the reconnecting   *)
(*           initiator-side connection, with the part of                   *)
(*           AviaConnectorClient (src/src/types.ts) that sends through it. *)
(* Part II : AviaConnectorServer (src/unnamed/part_001), the multi-client  *)
(*           acceptor with auth gate, built-in controls and router.        *)
(***************************************************************************)
EXTENDS Integers, Sequences, FiniteSets, TLC

VARIABLES
    \* ---- WebSocketTransport ----
    wsKind,          \* which listener API the socket implementation exposes
    autoReconnect,   \* opts.autoReconnect
    ws,              \* this.ws : 0 = undefined, else a socket id
    socks,           \* every underlying socket ever constructed
    closedByUser,    \* this.closedByUser
    reconnectDelay,  \* this.reconnectDelay
    idleTimer,       \* this.idleTimer is set
    timers,          \* number of pending setTimeout reconnect callbacks
    elapsed,         \* Date.now() - this.lastMessageAt
    emitted,         \* events emitted by the last operation, in order
    lastOp,          \* the last operation and its outcome
    fails,           \* reconnect attempts made since the last open event
    clientEvents,    \* AviaConnectorClient events emitted by the last operation
    hasToken,        \* AviaConnectorClient opts.token is provided
    heartbeat,       \* AviaConnectorClient opts.heartbeatIntervalMs is provided
    heartbeatInterval, \* AviaConnectorClient this.heartbeatInterval is set
    hbTimers,        \* number of live setInterval heartbeat timers
    clientSent,      \* safeSend calls of the client made by the last operation
    \* ---- AviaConnectorServer ----
    validateAuth,        \* opts.validateAuth is provided
    autoPong,            \* this.autoPong
    nextId,              \* this.nextId
    clients,             \* this.clients with the state of each connection's socket
    simulatorConnected,  \* this.simulatorConnected
    listeners,           \* this.listeners : number of handlers per event name
    sent,                \* ws.send calls made by the last operation, in order
    invoked,             \* handler invocations made by the last operation, in order
    srvOp,               \* the last server operation and its outcome
    \* ---- frame decoders ----
    decRaw,              \* the raw frame handed to the decoder
    decOut,              \* the decoder that ran and what it returned
    \* ---- simplified AviaConnectorServer ----
    client,              \* this.client : 0 = undefined, else a socket id
    conns,               \* readyState of every socket accepted so far
    nextConn,            \* the next socket the listener will accept
    listening,           \* the WebSocketServer has not been closed
    simulatorStatus,     \* this.simulatorStatus
    simOp,               \* the last operation of the simplified server
    notified             \* per socket: the last of onConnection / onDisconnect called for it

tvars == <<wsKind, autoReconnect, ws, socks, closedByUser, reconnectDelay,
           idleTimer, timers, elapsed, emitted, lastOp, fails, clientEvents,
           hasToken, heartbeat, heartbeatInterval, hbTimers, clientSent>>

svars == <<validateAuth, autoPong, nextId, clients, simulatorConnected,
           listeners, sent, invoked, srvOp>>

decodeVars == <<decRaw, decOut>>

simpleVars == <<client, conns, nextConn, listening, simulatorStatus, simOp,
                notified>>

vars == <<tvars, svars, decodeVars, simpleVars>>

\* ---------------------------------------------------------------------------
\* Bounds
\* ---------------------------------------------------------------------------
MaxSockets == 3
MaxClients == 2
MaxHandlers == 2
MaxTokens == 3
MaxConns == 3

\* ---------------------------------------------------------------------------
\* Program constants (defaults of the TransportOptions)
\* ---------------------------------------------------------------------------
ReconnectDelayMs == 1000
MaxReconnectDelayMs == 15000
BackoffFactorNum == 18
BackoffFactorDen == 10
IdleTimeoutMs == 30000
ReadyStateOpen == 1

Min(a, b) == IF a < b THEN a ELSE b

RECURSIVE Pow(_, _)
Pow(b, n) == IF n = 0 THEN 1 ELSE b * Pow(b, n - 1)

SockIds == 1 .. MaxSockets

\* socks[s] is the readyState of socket s (0 CONNECTING, 1 OPEN, 2 CLOSING,
\* 3 CLOSED); NotCreated stands for a socket that is not constructed yet
NotCreated == 0 - 1

NumCreated == Cardinality({s \in SockIds : socks[s] # NotCreated})

\* sockets that can still deliver events to the transport handlers
Live(s) == socks[s] \in {0, 1, 2}

LiveSockets == {s \in SockIds : Live(s)}

NoOp == [op |-> "init", sock |-> 0, result |-> "none", delay |-> 0]

\* ---------------------------------------------------------------------------
\* WebSocketTransport
\* ---------------------------------------------------------------------------

\* installHandlers: how many times one socket event of kind ev reaches its handler
HandlerRuns(ev) ==
    IF ev = "open"
    THEN 1
    ELSE IF wsKind = "both" THEN 2 ELSE 1

\* Math.min(max, Math.floor(delay * factor))
NextDelay(d) == Min(MaxReconnectDelayMs, (d * BackoffFactorNum) \div BackoffFactorDen)

\* ws.close() of the underlying socket: CONNECTING/OPEN become CLOSING
SocketCloseCall(ss, s) ==
    IF s # 0 /\ ss[s] \in {0, 1} THEN [ss EXCEPT ![s] = 2] ELSE ss

\* AviaConnectorClient.safeSend of a frame of the given kind when the current
\* socket is w and the sockets are ss: transport.send inside try/catch
SafeSend(kind, w, ss) ==
    [kind |-> kind,
     result |-> IF w # 0 /\ ss[w] = ReadyStateOpen THEN "ok" ELSE "caught"]

\* the error event safeSend emits when transport.send raised
SendFailed(sends) ==
    IF \E k \in 1 .. Len(sends) : sends[k].result = "caught"
    THEN <<"error:send failed">>
    ELSE <<>>

\* stopHeartbeat: clears the interval the field holds
stopHeartbeat(hb) ==
    [interval |-> FALSE,
     timers |-> IF hb.interval THEN hb.timers - 1 ELSE hb.timers]

\* startHeartbeat: stops the previous interval, then sets a new one
startHeartbeat(hb) ==
    IF heartbeat
    THEN [interval |-> TRUE, timers |-> stopHeartbeat(hb).timers + 1]
    ELSE hb

\* the heartbeat field and the live intervals
Hb == [interval |-> heartbeatInterval, timers |-> hbTimers]

\* open(): new WS(url) + installHandlers
OpenSocket ==
    /\ NumCreated < MaxSockets
    /\ LET n == NumCreated + 1 IN
        /\ socks' = [socks EXCEPT ![n] = 0]
        /\ ws' = n

\* connect(): the constructor of the socket either returns or raises
Connect ==
    /\ closedByUser' = FALSE
    /\ \/ /\ OpenSocket
          /\ lastOp' = [op |-> "connect", sock |-> ws', result |-> "ok", delay |-> 0]
       \/ /\ UNCHANGED <<socks, ws>>
          /\ lastOp' = [op |-> "connect", sock |-> 0, result |-> "threw", delay |-> 0]
    /\ emitted' = <<>>
    /\ clientEvents' = <<>>
    /\ clientSent' = <<>>
    /\ UNCHANGED <<hasToken, heartbeat, heartbeatInterval, hbTimers>>
    /\ UNCHANGED <<svars, decodeVars, simpleVars>>
    /\ UNCHANGED <<wsKind, autoReconnect, reconnectDelay, idleTimer, timers, elapsed, fails>>

\* handleOpen
SocketOpen(s) ==
    /\ socks[s] = 0
    /\ socks' = [socks EXCEPT ![s] = ReadyStateOpen]
    /\ elapsed' = 0
    /\ idleTimer' = TRUE
    /\ reconnectDelay' = ReconnectDelayMs
    /\ emitted' = <<"open">>
    /\ fails' = 0
    /\ lastOp' = [op |-> "socketOpen", sock |-> s, result |-> "ok", delay |-> 0]
    /\ clientSent' = IF hasToken THEN <<SafeSend("auth", ws, socks')>> ELSE <<>>
    /\ heartbeatInterval' = startHeartbeat(Hb).interval
    /\ hbTimers' = startHeartbeat(Hb).timers
    /\ clientEvents' = SendFailed(clientSent') \o <<"status:connected">>
    /\ UNCHANGED <<hasToken, heartbeat>>
    /\ UNCHANGED <<svars, decodeVars, simpleVars>>
    /\ UNCHANGED <<wsKind, autoReconnect, ws, closedByUser, timers>>

RepeatSeq(sq, n) == IF n = 2 THEN sq \o sq ELSE sq

\* handleMessage
SocketMessage(s) ==
    /\ socks[s] = ReadyStateOpen
    /\ elapsed' = 0
    /\ emitted' = RepeatSeq(<<"message">>, HandlerRuns("message"))
    /\ lastOp' = [op |-> "socketMessage", sock |-> s, result |-> "ok", delay |-> 0]
    /\ clientEvents' = <<>>
    /\ clientSent' = <<>>
    /\ UNCHANGED <<hasToken, heartbeat, heartbeatInterval, hbTimers>>
    /\ UNCHANGED <<svars, decodeVars, simpleVars>>
    /\ UNCHANGED <<wsKind, autoReconnect, ws, socks, closedByUser, reconnectDelay,
                   idleTimer, timers, fails>>

\* handleError
SocketError(s) ==
    /\ Live(s)
    /\ emitted' = RepeatSeq(<<"error">>, HandlerRuns("error"))
    /\ lastOp' = [op |-> "socketError", sock |-> s, result |-> "ok", delay |-> 0]
    /\ clientEvents' = RepeatSeq(<<"error:transport error">>, HandlerRuns("error"))
    /\ clientSent' = <<>>
    /\ UNCHANGED <<hasToken, heartbeat, heartbeatInterval, hbTimers>>
    /\ UNCHANGED <<svars, decodeVars, simpleVars>>
    /\ UNCHANGED <<wsKind, autoReconnect, ws, socks, closedByUser, reconnectDelay,
                   idleTimer, timers, elapsed, fails>>

\* handleClose
SocketClose(s) ==
    /\ Live(s)
    /\ socks' = [socks EXCEPT ![s] = 3]
    /\ idleTimer' = FALSE
    /\ LET sched == ~closedByUser /\ autoReconnect
           n == HandlerRuns("close")
       IN /\ emitted' = RepeatSeq(IF sched THEN <<"close", "reconnect_attempt">>
                                           ELSE <<"close">>, n)
          /\ timers' = IF sched THEN timers + n ELSE timers
          /\ lastOp' = [op |-> "socketClose", sock |-> s,
                        result |-> IF sched THEN "scheduled" ELSE "none",
                        delay |-> IF sched THEN reconnectDelay ELSE 0]
          /\ clientEvents' = RepeatSeq(IF sched THEN <<"status:disconnected", "status:reconnecting">>
                                                ELSE <<"status:disconnected">>, n)
    /\ clientSent' = <<>>
    /\ heartbeatInterval' = stopHeartbeat(Hb).interval
    /\ hbTimers' = stopHeartbeat(Hb).timers
    /\ UNCHANGED <<hasToken, heartbeat>>
    /\ UNCHANGED <<svars, decodeVars, simpleVars>>
    /\ UNCHANGED <<wsKind, autoReconnect, ws, closedByUser, reconnectDelay, elapsed, fails>>

\* the client's reconnected listener: the auth message through safeSend
ReconnectedSends(w, ss) == IF hasToken THEN <<SafeSend("auth", w, ss)>> ELSE <<>>

\* the client's reconnected listener: starts the heartbeat unless the field
\* holds one
ReconnectedHeartbeat(hb) == IF ~hb.interval THEN startHeartbeat(hb) ELSE hb

\* the setTimeout callback scheduled by handleClose, with the client's
\* reconnected listener
ReconnectTimer ==
    /\ timers > 0
    /\ timers' = timers - 1
    /\ \/ /\ OpenSocket
          /\ emitted' = <<"reconnected">>
          /\ reconnectDelay' = NextDelay(reconnectDelay)
          /\ lastOp' = [op |-> "reconnectTimer", sock |-> ws', result |-> "ok", delay |-> 0]
          /\ clientSent' = ReconnectedSends(ws', socks')
          /\ heartbeatInterval' = ReconnectedHeartbeat(Hb).interval
          /\ hbTimers' = ReconnectedHeartbeat(Hb).timers
       \/ /\ UNCHANGED <<socks, ws, reconnectDelay>>
          /\ emitted' = <<"reconnect_failed">>
          /\ lastOp' = [op |-> "reconnectTimer", sock |-> 0, result |-> "failed", delay |-> 0]
          /\ clientSent' = <<>>
          /\ UNCHANGED <<heartbeatInterval, hbTimers>>
    /\ fails' = fails + 1
    /\ clientEvents' = IF lastOp'.result = "ok"
                       THEN <<"status:reconnected">> \o SendFailed(clientSent')
                       ELSE <<>>
    /\ UNCHANGED <<hasToken, heartbeat>>
    /\ UNCHANGED <<svars, decodeVars, simpleVars>>
    /\ UNCHANGED <<wsKind, autoReconnect, closedByUser, idleTimer, elapsed>>

\* time passes without an inbound frame
AdvanceTime ==
    /\ elapsed <= IdleTimeoutMs
    /\ elapsed' = elapsed + IdleTimeoutMs
    /\ emitted' = <<>>
    /\ clientEvents' = <<>>
    /\ lastOp' = [op |-> "advanceTime", sock |-> 0, result |-> "none", delay |-> 0]
    /\ clientSent' = <<>>
    /\ UNCHANGED <<hasToken, heartbeat, heartbeatInterval, hbTimers>>
    /\ UNCHANGED <<svars, decodeVars, simpleVars>>
    /\ UNCHANGED <<wsKind, autoReconnect, ws, socks, closedByUser, reconnectDelay,
                   idleTimer, timers, fails>>

\* the setInterval callback of scheduleIdleCheck
IdleCheck ==
    /\ idleTimer
    /\ IF ws # 0 /\ elapsed > IdleTimeoutMs
       THEN /\ socks' = SocketCloseCall(socks, ws)
            /\ lastOp' = [op |-> "idleCheck", sock |-> ws, result |-> "closed", delay |-> 0]
       ELSE /\ socks' = socks
            /\ lastOp' = [op |-> "idleCheck", sock |-> 0, result |-> "none", delay |-> 0]
    /\ emitted' = <<>>
    /\ clientEvents' = <<>>
    /\ clientSent' = <<>>
    /\ UNCHANGED <<hasToken, heartbeat, heartbeatInterval, hbTimers>>
    /\ UNCHANGED <<svars, decodeVars, simpleVars>>
    /\ UNCHANGED <<wsKind, autoReconnect, ws, closedByUser, reconnectDelay,
                   idleTimer, timers, elapsed, fails>>

\* a variant of send that only checks that a socket exists
TransportSend_NoReadyStateCheck ==
    IF ws # 0
    THEN [op |-> "send", sock |-> ws, result |-> "ok", delay |-> 0]
    ELSE [op |-> "send", sock |-> 0, result |-> "threw", delay |-> 0]

\* send(data): throws unless this.ws exists and its readyState is 1
TransportSend ==
    IF ws # 0 /\ socks[ws] = ReadyStateOpen
    THEN [op |-> "send", sock |-> ws, result |-> "ok", delay |-> 0]
    ELSE [op |-> "send", sock |-> 0, result |-> "threw", delay |-> 0]

Send ==
    /\ lastOp' = TransportSend
    /\ emitted' = <<>>
    /\ clientEvents' = <<>>
    /\ clientSent' = <<>>
    /\ UNCHANGED <<hasToken, heartbeat, heartbeatInterval, hbTimers>>
    /\ UNCHANGED <<svars, decodeVars, simpleVars>>
    /\ UNCHANGED <<wsKind, autoReconnect, ws, socks, closedByUser, reconnectDelay,
                   idleTimer, timers, elapsed, fails>>

\* AviaConnectorClient.safeSend: transport.send inside try/catch
ClientSend ==
    /\ lastOp' = [TransportSend EXCEPT !.op = "clientSend",
                                       !.result = IF @ = "threw" THEN "caught" ELSE @]
    /\ emitted' = <<>>
    /\ clientEvents' = IF TransportSend.result = "threw" THEN <<"error:send failed">> ELSE <<>>
    /\ clientSent' = <<SafeSend("user", ws, socks)>>
    /\ UNCHANGED <<hasToken, heartbeat, heartbeatInterval, hbTimers>>
    /\ UNCHANGED <<svars, decodeVars, simpleVars>>
    /\ UNCHANGED <<wsKind, autoReconnect, ws, socks, closedByUser, reconnectDelay,
                   idleTimer, timers, elapsed, fails>>

\* close(code, reason)
Close ==
    /\ closedByUser' = TRUE
    /\ socks' = SocketCloseCall(socks, ws)
    /\ ws' = 0
    /\ idleTimer' = FALSE
    /\ emitted' = <<>>
    /\ clientEvents' = <<>>
    /\ lastOp' = [op |-> "close", sock |-> ws, result |-> "ok", delay |-> 0]
    /\ clientSent' = <<>>
    /\ UNCHANGED <<hasToken, heartbeat, heartbeatInterval, hbTimers>>
    /\ UNCHANGED <<svars, decodeVars, simpleVars>>
    /\ UNCHANGED <<wsKind, autoReconnect, reconnectDelay, timers, elapsed, fails>>

\* ---------------------------------------------------------------------------
\* AviaConnectorServer (multi-client acceptor)
\* ---------------------------------------------------------------------------
ClientIds == 1 .. MaxClients

Streams == {"telemetry"}

\* event names that handlers are registered for in this model: a user event
\* and a server lifecycle event
EventNames == {"telemetry", "connection"}

\* number of handlers registered in all
NumHandlers == listeners["telemetry"] + listeners["connection"]

\* the token the configured validator accepts
GoodToken == "secret"

\* SimulatorStatusCodes.MSFS_CONNECTED / MSFS_DISCONNECTED
MsfsConnected == "600"
MsfsDisconnected == "601"

\* a variant of the list without the aircraft data request
GatedRequests_NoAircraftData == {"Weather", "Landing", "Airport"}

\* request kinds that need the simulator
GatedRequests == {"AircraftData", "Weather", "Landing", "Airport"}

\* the fields of a parsed frame that the server looks at; data is "absent",
\* "string" or "object", inner is data.data, ts = 0 stands for no ts, message
\* says where a Status message is: in data ("data"), at the top level of the
\* envelope ("top") or nowhere
Env0 == [type |-> "raw", data |-> "absent", token |-> "none", topToken |-> "none",
         stream |-> "none", ts |-> 0, reqType |-> "none", code |-> "none",
         inner |-> "absent", innerCode |-> "none", message |-> "none"]

Obj(t) == [Env0 EXCEPT !.type = t, !.data = "object"]

Envelopes ==
    { [Obj("auth") EXCEPT !.token = GoodToken],
      [Obj("auth") EXCEPT !.token = "wrong"],
      [Env0 EXCEPT !.type = "auth", !.topToken = GoodToken],
      [Obj("subscribe") EXCEPT !.stream = "telemetry"],
      [Obj("unsubscribe") EXCEPT !.stream = "telemetry"],
      [Env0 EXCEPT !.type = "subscribe"],
      [Env0 EXCEPT !.type = "ping", !.ts = 7],
      [Env0 EXCEPT !.type = "ping"],
      [Obj("request") EXCEPT !.reqType = "AircraftData"],
      [Obj("request") EXCEPT !.reqType = "NearestAirportData"],
      [Obj("Status") EXCEPT !.code = MsfsConnected, !.message = "data"],
      [Obj("Status") EXCEPT !.code = MsfsDisconnected, !.message = "top"],
      [Obj("Status") EXCEPT !.inner = "object", !.innerCode = MsfsConnected],
      [Obj("Status") EXCEPT !.inner = "object", !.innerCode = MsfsDisconnected],
      [Obj("Status") EXCEPT !.inner = "object", !.innerCode = "999"],
      [Obj("Status") EXCEPT !.code = "999"],
      Obj("telemetry"),
      Obj("connection") }

\* a frame on the wire: text that is not JSON, JSON without a string type, or
\* JSON of an envelope
Frames ==
    [json : {FALSE}, typed : {FALSE}, obj : {Env0}]
      \cup [json : {TRUE}, typed : {FALSE}, obj : {Env0}]
      \cup [json : {TRUE}, typed : {TRUE}, obj : Envelopes]

\* defaultParseMessage
defaultParseMessage(f) ==
    IF f.json
    THEN IF f.typed
         THEN f.obj
         ELSE [Env0 EXCEPT !.type = "raw", !.data = "object"]
    ELSE [Env0 EXCEPT !.type = "raw", !.data = "string"]

NoClient == [st |-> "none", authed |-> FALSE, subs |-> {}]
Gone == [st |-> "gone", authed |-> FALSE, subs |-> {}]

\* the ids in this.clients
Registry == {i \in ClientIds : clients[i].st \in {"open", "closing"}}

\* the record of the last server operation: for a message, its sender, its
\* type, whether the sender was authenticated when it arrived, whether the
\* registry or the simulator flag changed, the tokens the validator was
\* called with, the requested kind (data.type) of a request, the stream
\* (data.stream) of a subscription frame, the ts of the frame, the handler
\* that raised during dispatch (0: none) and the unhandled notifications
\* emitted
NoSrvOp == [op |-> "init", id |-> 0, type |-> "none", result |-> "none",
            authed |-> FALSE, changed |-> FALSE, validated |-> <<>>,
            kind |-> "none", stream |-> "none", ts |-> 0, data |-> "none",
            raiser |-> 0, unhandled |-> <<>>]

\* one ws.send call through safeSend (an exception of ws.send is caught)
Msg(to, type, msg, ts) == [to |-> to, type |-> type, msg |-> msg, ts |-> ts]

\* emit(event, payload): every handler of the event, payload only
Emit(e) ==
    IF e \in EventNames
    THEN [i \in 1 .. listeners[e] |-> [ev |-> e, h |-> i, ctx |-> FALSE]]
    ELSE <<>>

HasListeners(e) == e \in EventNames /\ listeners[e] > 0

\* the token handed to the validator
AuthToken(env) ==
    IF env.data = "object"
    THEN IF env.token # "none" THEN env.token ELSE env.topToken
    ELSE "none"

\* the validator of the deployment: accepts the one good token
Validator(token) == token = GoodToken

\* a variant that authenticates whatever the validator answers
AuthOk_IgnoresValidator(env) == TRUE

\* const ok = this.validateAuth?.(token, ...) ?? false
AuthOk(env) == Validator(AuthToken(env))

\* route(env, ctx): result, new flag, new type, invocations
RouteThrows(env) ==
    env.type = "Status" /\ env.data = "object" /\ env.inner = "absent"

StatusCode(env) ==
    IF env.type = "Status" /\ env.data = "object" THEN env.innerCode ELSE "none"

RouteSimConnected(env) ==
    IF StatusCode(env) = MsfsConnected THEN TRUE
    ELSE IF StatusCode(env) = MsfsDisconnected THEN FALSE
    ELSE simulatorConnected

\* a variant of the dispatch that walks the handlers newest first
RouteInvoked_Reversed(env) ==
    IF HasListeners(env.type)
    THEN [i \in 1 .. listeners[env.type] |->
             [ev |-> env.type, h |-> listeners[env.type] + 1 - i, ctx |-> FALSE]]
           \o [i \in 1 .. listeners[env.type] |->
                 [ev |-> env.type, h |-> listeners[env.type] + 1 - i, ctx |-> TRUE]]
    ELSE <<>>

\* the handler calls of route(): this.emit(t, data), then
\* this.listeners[t].forEach(h => h(data, ctx)); a Set iterates in insertion
\* order
RouteInvoked(env) ==
    IF HasListeners(env.type)
    THEN Emit(env.type)
           \o [i \in 1 .. listeners[env.type] |-> [ev |-> env.type, h |-> i, ctx |-> TRUE]]
    ELSE <<>>

\* a variant of subscribe that acknowledges without recording the stream
SubsAdd_NotRecorded(subs, stream) == subs

\* rec.subs.add(stream)
SubsAdd(subs, stream) == subs \cup {stream}

\* a variant of the gate that lets the built-in ping through before auth
AuthGate_PingExempt(rec, env) == ~rec.authed /\ env.type # "ping"

\* if (!rec.authed): the frame is held at the authentication gate
AuthGate(rec, env) == ~rec.authed

\* a variant that hands out the smallest id that no open connection holds
NewId_ReuseFreed ==
    CHOOSE i \in ClientIds :
        /\ clients[i].st \in {"none", "gone"}
        /\ \A j \in 1 .. i - 1 : clients[j].st \notin {"none", "gone"}

\* const id = this.nextId++
NewId == nextId

\* a variant that marks every connection of the registry authenticated
Authenticate_Everyone(cl, id) ==
    [j \in ClientIds |-> IF cl[j].st \in {"open", "closing"}
                         THEN [cl[j] EXCEPT !.authed = TRUE]
                         ELSE cl[j]]

\* rec.authed = true
Authenticate(cl, id) == [cl EXCEPT ![id].authed = TRUE]

\* a variant of the pong that always carries the server's clock
PongTs_Now(env) == 0

\* ts: env.ts ?? Date.now()  (0 stands for the clock)
PongTs(env) == env.ts

\* emit("error", { message: "unhandled message", type, data, clientId })
Unhandled(env, id) ==
    IF HasListeners(env.type)
    THEN <<>>
    ELSE <<[type |-> env.type, data |-> env.data, clientId |-> id]>>

\* a variant of the dispatch without try/catch around the handler calls: the
\* first call that raises ends the dispatch and leaves route()
Dispatch_NoCatch(env, raiser) ==
    IF raiser > 0
    THEN [invoked |-> SubSeq(RouteInvoked(env), 1, raiser), result |-> "threw"]
    ELSE [invoked |-> RouteInvoked(env),
          result |-> IF HasListeners(env.type) THEN "routed" ELSE "unhandled"]

\* the dispatch of route(): every handler call is wrapped in try/catch, so a
\* handler that raises (raiser, 0 for none) is logged and the others still run
Dispatch(env, raiser) ==
    [invoked |-> RouteInvoked(env),
     result |-> IF HasListeners(env.type) THEN "routed" ELSE "unhandled"]

\* wss.on("connection")
Accept ==
    /\ nextId <= MaxClients
    /\ nextId' = nextId + 1
    /\ clients' = [clients EXCEPT ![NewId] =
                      [st |-> "open", authed |-> ~validateAuth, subs |-> {}]]
    /\ invoked' = Emit("connection")
    /\ sent' = <<>>
    /\ srvOp' = [NoSrvOp EXCEPT !.op = "accept", !.id = NewId, !.result = "ok"]
    /\ UNCHANGED <<validateAuth, autoPong, simulatorConnected, listeners>>
    /\ UNCHANGED <<tvars, decodeVars, simpleVars>>

\* ws.on("message"); raiser is the handler that raises when it is called
\* during the dispatch of this frame (0: every handler returns)
MessageRaising(id, f, raiser) ==
    /\ id \in Registry
    /\ LET env == defaultParseMessage(f)
           rec == clients[id]
           reply(type, msg, ts) == <<Msg(id, type, msg, ts)>>
           record(res, r, u) ==
               srvOp' = [op |-> "message", id |-> id, type |-> env.type,
                         result |-> res, authed |-> rec.authed,
                         changed |-> \/ clients' # clients
                                     \/ simulatorConnected' # simulatorConnected,
                         validated |-> IF AuthGate(rec, env) /\ env.type = "auth"
                                       THEN <<AuthToken(env)>>
                                       ELSE <<>>,
                         kind |-> env.reqType,
                         stream |-> env.stream,
                         ts |-> env.ts,
                         data |-> env.data,
                         raiser |-> r,
                         unhandled |-> u]
           done(res) == raiser = 0 /\ record(res, 0, <<>>)
       IN
       IF AuthGate(rec, env)
       THEN IF env.type = "auth"
            THEN IF AuthOk(env)
                 THEN /\ clients' = Authenticate(clients, id)
                      /\ sent' = reply("status", "auth ok", 0)
                      /\ invoked' = <<>>
                      /\ UNCHANGED simulatorConnected
                      /\ done("authOk")
                 ELSE /\ clients' = [clients EXCEPT ![id].st = "closing"]
                      /\ sent' = reply("error", "auth failed", 0)
                      /\ invoked' = <<>>
                      /\ UNCHANGED simulatorConnected
                      /\ done("authFailed")
            ELSE /\ sent' = reply("error", "unauthenticated", 0)
                 /\ invoked' = <<>>
                 /\ UNCHANGED <<clients, simulatorConnected>>
                 /\ done("unauthenticated")
       ELSE IF env.type = "subscribe"
       THEN /\ clients' = IF env.stream # "none"
                          THEN [clients EXCEPT ![id].subs = SubsAdd(@, env.stream)]
                          ELSE clients
            /\ sent' = reply("status", "subscribed", 0)
            /\ invoked' = <<>>
            /\ UNCHANGED simulatorConnected
            /\ done("subscribed")
       ELSE IF env.type = "unsubscribe"
       THEN /\ clients' = IF env.stream # "none"
                          THEN [clients EXCEPT ![id].subs = @ \ {env.stream}]
                          ELSE clients
            /\ sent' = reply("status", "unsubscribed", 0)
            /\ invoked' = <<>>
            /\ UNCHANGED simulatorConnected
            /\ done("unsubscribed")
       ELSE IF env.type = "ping" /\ autoPong
       THEN /\ sent' = reply("pong", "none", PongTs(env))
            /\ invoked' = <<>>
            /\ UNCHANGED <<clients, simulatorConnected>>
            /\ done("pong")
       ELSE IF /\ env.type = "request"
               /\ env.data = "object"
               /\ env.reqType \in GatedRequests
               /\ ~simulatorConnected
       THEN /\ sent' = reply("error", "Simulator isnt connected", 0)
            /\ invoked' = <<>>
            /\ UNCHANGED <<clients, simulatorConnected>>
            /\ done("blocked")
       ELSE IF RouteThrows(env)
       THEN /\ sent' = <<>>
            /\ invoked' = <<>>
            /\ UNCHANGED <<clients, simulatorConnected>>
            /\ done("threw")
       ELSE /\ raiser > 0 => (HasListeners(env.type) /\ raiser <= listeners[env.type])
            /\ simulatorConnected' = RouteSimConnected(env)
            /\ sent' = <<>>
            /\ invoked' = Dispatch(env, raiser).invoked
            /\ UNCHANGED clients
            /\ record(Dispatch(env, raiser).result, raiser, Unhandled(env, id))
    /\ UNCHANGED <<validateAuth, autoPong, nextId, listeners>>
    /\ UNCHANGED <<tvars, decodeVars, simpleVars>>

\* ws.on("message") when every handler returns normally
Message(id, f) == MessageRaising(id, f, 0)

\* ws.on("close")
ClientClose(id) ==
    /\ id \in Registry
    /\ clients' = [clients EXCEPT ![id] = Gone]
    /\ invoked' = <<>>
    /\ sent' = <<>>
    /\ srvOp' = [NoSrvOp EXCEPT !.op = "clientClose", !.id = id, !.result = "ok"]
    /\ UNCHANGED <<validateAuth, autoPong, nextId, simulatorConnected, listeners>>
    /\ UNCHANGED <<tvars, decodeVars, simpleVars>>

\* on(event, handler)
On(e) ==
    /\ NumHandlers < MaxHandlers
    /\ listeners' = [listeners EXCEPT ![e] = @ + 1]
    /\ invoked' = <<>>
    /\ sent' = <<>>
    /\ srvOp' = [NoSrvOp EXCEPT !.op = "on", !.result = "ok"]
    /\ UNCHANGED <<validateAuth, autoPong, nextId, clients, simulatorConnected>>
    /\ UNCHANGED <<tvars, decodeVars, simpleVars>>

\* the two deployments checked: secured (a validator, autoPong left at its
\* default) and open (no validator, autoPong switched off)
SInit ==
    /\ validateAuth \in BOOLEAN
    /\ autoPong = validateAuth
    /\ nextId = 1
    /\ clients = [i \in ClientIds |-> NoClient]
    /\ simulatorConnected = FALSE
    /\ listeners = [e \in EventNames |-> 0]
    /\ sent = <<>>
    /\ invoked = <<>>
    /\ srvOp = NoSrvOp

\* the server before it is used (the transport is checked on its own)
SIdle ==
    /\ validateAuth = FALSE
    /\ autoPong = TRUE
    /\ nextId = 1
    /\ clients = [i \in ClientIds |-> NoClient]
    /\ simulatorConnected = FALSE
    /\ listeners = [e \in EventNames |-> 0]
    /\ sent = <<>>
    /\ invoked = <<>>
    /\ srvOp = NoSrvOp

\* off(event, handler)
Off(e) ==
    /\ listeners[e] > 0
    /\ listeners' = [listeners EXCEPT ![e] = @ - 1]
    /\ invoked' = <<>>
    /\ sent' = <<>>
    /\ srvOp' = [NoSrvOp EXCEPT !.op = "off", !.result = "ok"]
    /\ UNCHANGED <<validateAuth, autoPong, nextId, clients, simulatorConnected>>
    /\ UNCHANGED <<tvars, decodeVars, simpleVars>>

\* the ids of a set of connections in the iteration (insertion) order of
\* this.clients
InOrder(ids) == SelectSeq([i \in 1 .. MaxClients |-> i], LAMBDA i : i \in ids)

\* some socket among the targets is not open any more
HasStaleTarget(targets) ==
    \E k \in 1 .. Len(targets) : clients[targets[k]].st # "open"

\* the first position of a socket that is not open
FirstStale(targets) ==
    CHOOSE k \in 1 .. Len(targets) :
        /\ clients[targets[k]].st # "open"
        /\ \A j \in 1 .. k - 1 : clients[targets[j]].st = "open"

\* a variant of safeSend without the try/catch: the first send that raises
\* ends the loop and reaches the caller
SafeSendAll_NoCatch(targets, type, raises) ==
    IF raises /\ HasStaleTarget(targets)
    THEN [sent |-> [k \in 1 .. FirstStale(targets) |-> Msg(targets[k], type, "payload", 0)],
          result |-> "threw"]
    ELSE [sent |-> [k \in 1 .. Len(targets) |-> Msg(targets[k], type, "payload", 0)],
          result |-> "ok"]

\* safeSend(ws, text) for each target in turn: ws.send is called on every
\* target; an exception of ws.send (raises: the socket library raises on a
\* socket that is not open) is caught and logged
SafeSendAll(targets, type, raises) ==
    [sent |-> [k \in 1 .. Len(targets) |-> Msg(targets[k], type, "payload", 0)],
     result |-> IF raises /\ HasStaleTarget(targets) THEN "caught" ELSE "ok"]

\* a variant of broadcast that skips connections without a subscription
BroadcastTargets_SubscribersOnly ==
    InOrder({i \in Registry : clients[i].subs # {}})

\* for (const { ws } of this.clients.values())
BroadcastTargets == InOrder(Registry)

\* a variant of push without the subscription test
PushTargets_Everyone(event) == InOrder(Registry)

\* for (const { ws, subs } of this.clients.values()) if (subs.has(event))
PushTargets(event) ==
    InOrder({i \in Registry : event \in clients[i].subs})

\* broadcast(payload)
Broadcast(raises) ==
    /\ LET r == SafeSendAll(BroadcastTargets, "broadcast", raises)
       IN /\ sent' = r.sent
          /\ srvOp' = [NoSrvOp EXCEPT !.op = "broadcast", !.result = r.result]
    /\ invoked' = <<>>
    /\ UNCHANGED <<validateAuth, autoPong, nextId, clients, simulatorConnected, listeners>>
    /\ UNCHANGED <<tvars, decodeVars, simpleVars>>

\* push(event, data)
Push(event, raises) ==
    /\ LET r == SafeSendAll(PushTargets(event), event, raises)
       IN /\ sent' = r.sent
          /\ srvOp' = [NoSrvOp EXCEPT !.op = "push", !.type = event, !.result = r.result]
    /\ invoked' = <<>>
    /\ UNCHANGED <<validateAuth, autoPong, nextId, clients, simulatorConnected, listeners>>
    /\ UNCHANGED <<tvars, decodeVars, simpleVars>>

\* sendTo(clientId, payload)
SendTo(id, raises) ==
    /\ IF id \in Registry
       THEN LET r == SafeSendAll(<<id>>, "direct", raises)
            IN /\ sent' = r.sent
               /\ srvOp' = [NoSrvOp EXCEPT !.op = "sendTo", !.id = id, !.result = r.result]
       ELSE /\ sent' = <<>>
            /\ srvOp' = [NoSrvOp EXCEPT !.op = "sendTo", !.id = id, !.result = "noop"]
    /\ invoked' = <<>>
    /\ UNCHANGED <<validateAuth, autoPong, nextId, clients, simulatorConnected, listeners>>
    /\ UNCHANGED <<tvars, decodeVars, simpleVars>>

\* ctx.close(), called by the handler that the last frame of the connection
\* was dispatched to (the context is handed to handlers only): rec.ws.close()
CtxClose(id) ==
    /\ srvOp.op = "message"
    /\ srvOp.id = id
    /\ \E k \in 1 .. Len(invoked) : invoked[k].ctx
    /\ id \in Registry
    /\ clients' = [clients EXCEPT ![id].st = "closing"]
    /\ sent' = <<>>
    /\ invoked' = <<>>
    /\ srvOp' = [NoSrvOp EXCEPT !.op = "ctxClose", !.id = id, !.result = "ok"]
    /\ UNCHANGED <<validateAuth, autoPong, nextId, simulatorConnected, listeners>>
    /\ UNCHANGED <<tvars, decodeVars, simpleVars>>

\* the server under every kind of frame; the user event has a handler or none
\* here (several handlers of one event are exercised by RNext, handlers of a
\* lifecycle event by LNext)
SNext ==
    \/ Accept
    \/ \E id \in ClientIds, f \in Frames : Message(id, f)
    \/ \E id \in ClientIds : ClientClose(id)
    \/ listeners["telemetry"] = 0 /\ On("telemetry")
    \/ Off("telemetry")

\* the frames of the built-in protocol: a malformed frame, authentication, the
\* subscription built-ins, ping, a gated request, the status envelopes that
\* switch the simulator flag and a user event
ServerFrames ==
    [json : {FALSE}, typed : {FALSE}, obj : {Env0}]
      \cup [json : {TRUE}, typed : {TRUE},
            obj : { [Obj("auth") EXCEPT !.token = GoodToken],
                    [Obj("auth") EXCEPT !.token = "wrong"],
                    [Obj("subscribe") EXCEPT !.stream = "telemetry"],
                    [Obj("unsubscribe") EXCEPT !.stream = "telemetry"],
                    [Env0 EXCEPT !.type = "subscribe"],
                    [Env0 EXCEPT !.type = "ping", !.ts = 7],
                    [Env0 EXCEPT !.type = "ping"],
                    [Obj("request") EXCEPT !.reqType = "AircraftData"],
                    [Obj("Status") EXCEPT !.inner = "object", !.innerCode = MsfsConnected],
                    [Obj("Status") EXCEPT !.inner = "object", !.innerCode = MsfsDisconnected],
                    Obj("telemetry") }]

\* the server under the frames of the built-in protocol
GNext ==
    \/ Accept
    \/ \E id \in ClientIds, f \in ServerFrames : Message(id, f)
    \/ \E id \in ClientIds : ClientClose(id)
    \/ listeners["telemetry"] = 0 /\ On("telemetry")
    \/ Off("telemetry")

\* the frames of the lifecycle scenarios: authentication, a user event and an
\* envelope that carries the name of a lifecycle event as its type
LifecycleFrames ==
    [json : {TRUE}, typed : {TRUE},
     obj : { [Obj("auth") EXCEPT !.token = GoodToken],
             Obj("telemetry"),
             Obj("connection") }]

\* the server with handlers registered for a lifecycle event
LNext ==
    \/ Accept
    \/ \E id \in ClientIds, f \in LifecycleFrames : Message(id, f)
    \/ \E id \in ClientIds : ClientClose(id)
    \/ On("connection")
    \/ Off("connection")

\* the frames of the registry scenarios: authentication, the subscription
\* built-ins and a user event
RegistryFrames ==
    [json : {TRUE}, typed : {TRUE},
     obj : { [Obj("auth") EXCEPT !.token = GoodToken],
             [Obj("auth") EXCEPT !.token = "wrong"],
             [Obj("subscribe") EXCEPT !.stream = "telemetry"],
             [Obj("unsubscribe") EXCEPT !.stream = "telemetry"],
             Obj("telemetry") }]

\* the server with its registry operations: connections come and go, send
\* the registry frames, handlers of the user event are registered and may
\* close the connection they were called for, and the application broadcasts,
\* pushes and sends to single connections
RNext ==
    \/ Accept
    \/ \E id \in ClientIds, f \in RegistryFrames, raiser \in 0 .. MaxHandlers :
          MessageRaising(id, f, raiser)
    \/ \E id \in ClientIds : ClientClose(id)
    \/ On("telemetry")
    \/ Off("telemetry")
    \/ \E raises \in BOOLEAN : Broadcast(raises)
    \/ \E event \in Streams, raises \in BOOLEAN : Push(event, raises)
    \/ \E id \in ClientIds, raises \in BOOLEAN : SendTo(id, raises)
    \/ \E id \in ClientIds : CtxClose(id)


TInit ==
    /\ wsKind \in {"addEventListener", "on", "both"}
    /\ autoReconnect \in BOOLEAN
    /\ ws = 0
    /\ socks = [s \in SockIds |-> NotCreated]
    /\ closedByUser = FALSE
    /\ reconnectDelay = ReconnectDelayMs
    /\ idleTimer = FALSE
    /\ timers = 0
    /\ elapsed = IdleTimeoutMs + IdleTimeoutMs
    /\ emitted = <<>>
    /\ lastOp = NoOp
    /\ fails = 0
    /\ clientEvents = <<>>
    /\ hasToken = FALSE
    /\ heartbeat = FALSE
    /\ heartbeatInterval = FALSE
    /\ hbTimers = 0
    /\ clientSent = <<>>

TNext ==
    \/ Connect
    \/ Close
    \/ Send
    \/ ClientSend
    \/ ReconnectTimer
    \/ AdvanceTime
    \/ IdleCheck
    \/ \E s \in SockIds : SocketOpen(s)
    \/ \E s \in SockIds : SocketMessage(s)
    \/ \E s \in SockIds : SocketError(s)
    \/ \E s \in SockIds : SocketClose(s)

\* the transport before it is used (the server is checked on its own)
TIdle ==
    /\ wsKind = "on"
    /\ autoReconnect = TRUE
    /\ ws = 0
    /\ socks = [s \in SockIds |-> NotCreated]
    /\ closedByUser = FALSE
    /\ reconnectDelay = ReconnectDelayMs
    /\ idleTimer = FALSE
    /\ timers = 0
    /\ elapsed = IdleTimeoutMs + IdleTimeoutMs
    /\ emitted = <<>>
    /\ lastOp = NoOp
    /\ fails = 0
    /\ clientEvents = <<>>
    /\ hasToken = FALSE
    /\ heartbeat = FALSE
    /\ heartbeatInterval = FALSE
    /\ hbTimers = 0
    /\ clientSent = <<>>

\* AviaConnectorClient.disconnect(): stopHeartbeat, then transport.close
ClientDisconnect ==
    /\ heartbeatInterval' = stopHeartbeat(Hb).interval
    /\ hbTimers' = stopHeartbeat(Hb).timers
    /\ closedByUser' = TRUE
    /\ socks' = SocketCloseCall(socks, ws)
    /\ ws' = 0
    /\ idleTimer' = FALSE
    /\ emitted' = <<>>
    /\ clientEvents' = <<>>
    /\ clientSent' = <<>>
    /\ lastOp' = [op |-> "disconnect", sock |-> ws, result |-> "ok", delay |-> 0]
    /\ UNCHANGED <<svars, decodeVars, simpleVars>>
    /\ UNCHANGED <<wsKind, autoReconnect, reconnectDelay, timers, elapsed, fails,
                   hasToken, heartbeat>>

\* the setInterval callback of startHeartbeat: safeSend of the ping, then the
\* heartbeat event
HeartbeatTick ==
    /\ hbTimers > 0
    /\ clientSent' = <<SafeSend("ping", ws, socks)>>
    /\ clientEvents' = SendFailed(clientSent') \o <<"heartbeat">>
    /\ emitted' = <<>>
    /\ lastOp' = [op |-> "heartbeat", sock |-> ws, result |-> clientSent'[1].result,
                  delay |-> 0]
    /\ UNCHANGED <<svars, decodeVars, simpleVars>>
    /\ UNCHANGED <<wsKind, autoReconnect, ws, socks, closedByUser, reconnectDelay,
                   idleTimer, timers, elapsed, fails, hasToken, heartbeat,
                   heartbeatInterval, hbTimers>>

\* a client constructed with a token and a heartbeat interval, on a socket
\* implementation with on() only, before connect()
CInit ==
    /\ wsKind = "on"
    /\ autoReconnect \in BOOLEAN
    /\ ws = 0
    /\ socks = [s \in SockIds |-> NotCreated]
    /\ closedByUser = FALSE
    /\ reconnectDelay = ReconnectDelayMs
    /\ idleTimer = FALSE
    /\ timers = 0
    /\ elapsed = IdleTimeoutMs + IdleTimeoutMs
    /\ emitted = <<>>
    /\ lastOp = NoOp
    /\ fails = 0
    /\ clientEvents = <<>>
    /\ hasToken = TRUE
    /\ heartbeat = TRUE
    /\ heartbeatInterval = FALSE
    /\ hbTimers = 0
    /\ clientSent = <<>>

\* the client's API and the events of its transport
CNext ==
    \/ Connect
    \/ ClientDisconnect
    \/ ClientSend
    \/ ReconnectTimer
    \/ AdvanceTime
    \/ IdleCheck
    \/ HeartbeatTick
    \/ \E s \in SockIds : SocketOpen(s)
    \/ \E s \in SockIds : SocketMessage(s)
    \/ \E s \in SockIds : SocketError(s)
    \/ \E s \in SockIds : SocketClose(s)

\* ---------------------------------------------------------------------------
\* Part III : the frame decoders
\*            defaultParseMessage (src/src/types.ts) and
\*            AviaConnectorServer.parseMessage
\*            (src/src/server/AviaConnectorServer.ts)
\* ---------------------------------------------------------------------------

\* the pieces a frame's text is made of
DecTokens == {"{", "}", "type:str", "type:num", "null", "7", "[]", "junk"}

\* the texts of at most MaxTokens pieces, the empty text included
Texts == UNION {[1 .. n -> DecTokens] : n \in 0 .. MaxTokens}

\* ws RawData (Buffer | ArrayBuffer | Buffer[] | string): a frame arrives in
\* one piece or, fragmented, as an array of two buffers
RawFrames ==
    [kind : {"string", "Buffer", "ArrayBuffer"}, chunks : {<<t>> : t \in Texts}]
      \cup UNION { { [kind |-> "Buffer[]",
                      chunks |-> <<SubSeq(t, 1, k), SubSeq(t, k + 1, Len(t))>>]
                     : k \in 0 .. Len(t) } : t \in Texts }

\* rawToString: the text of a frame
rawToString(raw) ==
    CASE raw.kind = "string" -> raw.chunks[1]
      [] raw.kind = "Buffer[]" -> raw.chunks[1] \o raw.chunks[2]
      [] raw.kind = "Buffer" -> raw.chunks[1]
      [] raw.kind = "ArrayBuffer" -> raw.chunks[1]

\* JSON.parse: the parsed value, or a SyntaxError (ok = FALSE)
JsonParse(text) ==
    CASE text = <<"null">> -> [ok |-> TRUE, value |-> "null", type |-> "none"]
      [] text = <<"7">> -> [ok |-> TRUE, value |-> "number", type |-> "none"]
      [] text = <<"[]">> -> [ok |-> TRUE, value |-> "array", type |-> "none"]
      [] text = <<"{", "}">> -> [ok |-> TRUE, value |-> "object", type |-> "none"]
      [] text = <<"{", "type:num", "}">> ->
             [ok |-> TRUE, value |-> "object", type |-> "number"]
      [] text = <<"{", "type:str", "}">> ->
             [ok |-> TRUE, value |-> "object", type |-> "string"]
      [] OTHER -> [ok |-> FALSE, value |-> "none", type |-> "none"]

\* obj && typeof obj.type === "string"
HasStringType(parsed) == parsed.value # "null" /\ parsed.type = "string"

\* the JSON half of both decoders: the typed object itself, else an envelope of
\* the decoder's reserved type carrying the parsed value or, when JSON.parse
\* raised, the text
ParseText(reserved, text) ==
    LET parsed == JsonParse(text)
    IN IF parsed.ok
       THEN IF HasStringType(parsed)
            THEN [type |-> "typed", data |-> [value |-> "payload", text |-> <<>>]]
            ELSE [type |-> reserved, data |-> [value |-> parsed.value, text |-> <<>>]]
       ELSE [type |-> reserved, data |-> [value |-> "text", text |-> text]]

\* defaultParseMessage of the protocol module, on a raw frame
defaultParseMessageRaw(raw) == ParseText("raw", rawToString(raw))

\* AviaConnectorServer.parseMessage of the simplified server
parseMessage(raw) ==
    LET text == CASE raw.kind = "string" -> raw.chunks[1]
                  [] raw.kind = "Buffer" -> raw.chunks[1]
                  [] raw.kind = "ArrayBuffer" -> raw.chunks[1]
                  [] raw.kind = "Buffer[]" -> raw.chunks[1] \o raw.chunks[2]
    IN ParseText("unknown", text)

NoOutput ==
    [by |-> "none", threw |-> FALSE,
     env |-> [type |-> "none", data |-> [value |-> "none", text |-> <<>>]]]

\* the multi-client server and the client decode with defaultParseMessage
DecodeDefault ==
    /\ decOut.by = "none"
    /\ decOut' = [by |-> "defaultParseMessage", threw |-> FALSE,
                  env |-> defaultParseMessageRaw(decRaw)]
    /\ UNCHANGED <<decRaw, tvars, svars, simpleVars>>

\* the simplified server decodes with its own parseMessage
DecodeSimplified ==
    /\ decOut.by = "none"
    /\ decOut' = [by |-> "parseMessage", threw |-> FALSE,
                  env |-> parseMessage(decRaw)]
    /\ UNCHANGED <<decRaw, tvars, svars, simpleVars>>

DInit == decRaw \in RawFrames /\ decOut = NoOutput

DIdle == decRaw = [kind |-> "string", chunks |-> << <<>> >>] /\ decOut = NoOutput

DNext == DecodeDefault \/ DecodeSimplified

\* ---------------------------------------------------------------------------
\* Part IV : the simplified single-client AviaConnectorServer
\*           (src/src/server/AviaConnectorServer.ts)
\* ---------------------------------------------------------------------------

ConnIds == 1 .. MaxConns

\* the envelopes the AviaConnector application sends to the simplified server
SimpleMessages ==
    { [type |-> "AircraftData", data |-> "object", code |-> "none", message |-> "none"],
      [type |-> "Status", data |-> "nested", code |-> MsfsConnected, message |-> "msfs"],
      [type |-> "Status", data |-> "flat", code |-> MsfsConnected, message |-> "none"],
      [type |-> "Status", data |-> "flat", code |-> MsfsDisconnected, message |-> "none"],
      [type |-> "Status", data |-> "absent", code |-> "none", message |-> "none"],
      [type |-> "pong", data |-> "object", code |-> "none", message |-> "none"],
      [type |-> "unknown", data |-> "object", code |-> "none", message |-> "none"] }

NotConnected == [connected |-> FALSE, simulator |-> "none"]

\* detectSimulator
detectSimulator(message) == IF message = "msfs" THEN "MSFS" ELSE "Unknown"

\* the record of the last operation of the simplified server: the socket it
\* concerns, the current client when it began, what the call returned, the
\* frames handed to sockets, the close requests made and the callbacks invoked,
\* in order
NoSimOp ==
    [op |-> "init", id |-> 0, prev |-> 0, result |-> "none", frames |-> <<>>,
     closes |-> <<>>, calls |-> <<>>]

\* a variant of the eviction that leaves the previous client's socket alone
Evict_Keep(cs, c) == [conns |-> cs, closes |-> <<>>]

\* if (this.client) this.client.close(1000, "New client connected"): close()
\* on an open socket starts the closing handshake, on any other it does nothing
Evict(cs, c) ==
    IF c = 0
    THEN [conns |-> cs, closes |-> <<>>]
    ELSE [conns |-> [cs EXCEPT ![c] = IF @ = "open" THEN "closing" ELSE @],
          closes |-> <<[id |-> c, code |-> 1000]>>]

\* wss.on("connection")
SimpleAccept ==
    /\ listening
    /\ nextConn <= MaxConns
    /\ nextConn' = nextConn + 1
    /\ conns' = [Evict(conns, client).conns EXCEPT ![nextConn] = "open"]
    /\ client' = nextConn
    /\ simOp' = [NoSimOp EXCEPT !.op = "accept", !.id = nextConn, !.prev = client,
                                !.result = "ok",
                                !.closes = Evict(conns, client).closes,
                                !.calls = <<"onConnection">>]
    /\ notified' = [notified EXCEPT ![nextConn] = "onConnection"]
    /\ UNCHANGED <<listening, simulatorStatus>>
    /\ UNCHANGED <<tvars, svars, decodeVars>>

\* handleMessage; the listener stays wired on a socket after its eviction
SimpleMessage(id, m) ==
    /\ conns[id] \in {"open", "closing"}
    /\ simulatorStatus' =
          IF m.type = "Status" /\ m.data # "absent"
          THEN IF m.code = MsfsConnected
               THEN [connected |-> TRUE, simulator |-> detectSimulator(m.message)]
               ELSE IF m.code = MsfsDisconnected THEN NotConnected
               ELSE simulatorStatus
          ELSE simulatorStatus
    /\ simOp' = [NoSimOp EXCEPT
                   !.op = "message", !.id = id, !.result = m.type,
                   !.calls = IF m.data = "absent" THEN <<>>
                             ELSE IF m.type = "AircraftData" THEN <<"onAircraftData">>
                             ELSE IF m.type = "Status"
                                     /\ m.code \in {MsfsConnected, MsfsDisconnected}
                                  THEN <<"onSimulatorStatus">>
                             ELSE IF m.type = "pong" THEN <<"onPong">>
                             ELSE <<>>]
    /\ UNCHANGED <<client, conns, nextConn, listening, notified>>
    /\ UNCHANGED <<tvars, svars, decodeVars>>

\* the socket starts closing: the peer sent a close frame or the link broke
SimpleSocketClosing(id) ==
    /\ conns[id] = "open"
    /\ conns' = [conns EXCEPT ![id] = "closing"]
    /\ simOp' = [NoSimOp EXCEPT !.op = "closing", !.id = id, !.result = "ok"]
    /\ UNCHANGED <<client, nextConn, listening, simulatorStatus, notified>>
    /\ UNCHANGED <<tvars, svars, decodeVars>>

\* ws.on("close")
SimpleSocketClose(id) ==
    /\ conns[id] \in {"open", "closing"}
    /\ conns' = [conns EXCEPT ![id] = "closed"]
    /\ client' = IF client = id THEN 0 ELSE client
    /\ simOp' = [NoSimOp EXCEPT !.op = "close", !.id = id, !.result = "ok",
                                !.calls = IF client = id THEN <<"onDisconnect">>
                                          ELSE <<>>]
    /\ notified' = IF client = id
                   THEN [notified EXCEPT ![id] = "onDisconnect"]
                   ELSE notified
    /\ UNCHANGED <<nextConn, listening, simulatorStatus>>
    /\ UNCHANGED <<tvars, svars, decodeVars>>

\* a variant of the guard of send() that only looks for a current client
CanSend_NoReadyStateCheck == client # 0

\* !(!this.client || this.client.readyState !== WebSocket.OPEN)
CanSend == client # 0 /\ conns[client] = "open"

\* send(data), and ping() and requestAircraftData() which call it; raises
\* says whether JSON.stringify or client.send raises
SimpleSend(method, raises) ==
    /\ simOp' = [NoSimOp EXCEPT
                   !.op = method, !.id = client, !.prev = client,
                   !.result = IF CanSend /\ ~raises THEN "true" ELSE "false",
                   !.frames = IF CanSend /\ ~raises
                              THEN <<[to |-> client, method |-> method]>>
                              ELSE <<>>,
                   !.calls = IF CanSend /\ raises THEN <<"onError">> ELSE <<>>]
    /\ UNCHANGED <<client, conns, nextConn, listening, simulatorStatus, notified>>
    /\ UNCHANGED <<tvars, svars, decodeVars>>

\* close()
SimpleClose ==
    /\ listening
    /\ listening' = FALSE
    /\ conns' = Evict(conns, client).conns
    /\ client' = 0
    /\ simOp' = [NoSimOp EXCEPT !.op = "serverClose", !.id = client, !.result = "ok",
                                !.closes = Evict(conns, client).closes]
    /\ UNCHANGED <<nextConn, simulatorStatus, notified>>
    /\ UNCHANGED <<tvars, svars, decodeVars>>

SendMethods == {"send", "ping", "requestAircraftData"}

UInit ==
    /\ client = 0
    /\ conns = [i \in ConnIds |-> "none"]
    /\ nextConn = 1
    /\ listening = TRUE
    /\ simulatorStatus = NotConnected
    /\ simOp = NoSimOp
    /\ notified = [i \in ConnIds |-> "none"]

UNext ==
    \/ SimpleAccept
    \/ \E id \in ConnIds, m \in SimpleMessages : SimpleMessage(id, m)
    \/ \E id \in ConnIds : SimpleSocketClosing(id)
    \/ \E id \in ConnIds : SimpleSocketClose(id)
    \/ \E method \in SendMethods, raises \in BOOLEAN : SimpleSend(method, raises)
    \/ SimpleClose

Init == TInit /\ SIdle /\ DIdle /\ UInit

Next == TNext

Spec == Init /\ [][Next]_vars

ServerInit == TIdle /\ SInit /\ DIdle /\ UInit

ServerNext == GNext

RegistryInit == TIdle /\ SInit /\ DIdle /\ UInit
RegistryNext == RNext
RegistrySpec == RegistryInit /\ [][RegistryNext]_vars

LifecycleInit == TIdle /\ SInit /\ DIdle /\ UInit
LifecycleNext == LNext
LifecycleSpec == LifecycleInit /\ [][LifecycleNext]_vars

ServerSpec == ServerInit /\ [][ServerNext]_vars

WireInit == TIdle /\ SInit /\ DIdle /\ UInit
WireNext == SNext
WireSpec == WireInit /\ [][WireNext]_vars

DecodeInit == TIdle /\ SIdle /\ DInit /\ UInit
DecodeNext == DNext
DecodeSpec == DecodeInit /\ [][DecodeNext]_vars

SimpleInit == TIdle /\ SIdle /\ DIdle /\ UInit
SimpleNext == UNext
SimpleSpec == SimpleInit /\ [][SimpleNext]_vars

ClientInit == CInit /\ SIdle /\ DIdle /\ UInit
ClientNext == CNext
ClientSpec == ClientInit /\ [][ClientNext]_vars

\* fairness the runtime's scheduling gives: pending timers fire, the interval
\* of the watchdog fires, time passes, a socket that is connecting settles
\* (opens or closes) and a socket that is closing closes.  Nothing forces the
\* owner to call connect/close/send, the peer to send a frame, or an open
\* socket to close.
SocketSettles(s) ==
    \/ socks[s] = 0 /\ (SocketOpen(s) \/ SocketClose(s))
    \/ socks[s] = 2 /\ SocketClose(s)

FairSpec ==
    /\ Spec
    /\ WF_vars(ReconnectTimer)
    /\ WF_vars(IdleCheck)
    /\ WF_vars(AdvanceTime)
    /\ \A s \in SockIds : WF_vars(SocketSettles(s))

\* ---------------------------------------------------------------------------
\* Derived notions
\* ---------------------------------------------------------------------------

\* the state of the logical connection, read off the current socket
TransportState ==
    IF ws = 0
    THEN IF closedByUser THEN "ClosedByUser"
         ELSE IF timers > 0 THEN "Reconnecting" ELSE "Idle"
    ELSE CASE socks[ws] = 0 -> "Connecting"
           [] socks[ws] = 1 -> "Open"
           [] socks[ws] = 2 -> "Closing"
           [] OTHER -> IF timers > 0 THEN "Reconnecting" ELSE "Closed"

Range(sq) == {sq[i] : i \in 1 .. Len(sq)}

\* ---------------------------------------------------------------------------
\* Claims about the transport
\* ---------------------------------------------------------------------------

\* C1: once close() has been called and until connect() is called again
\* (closedByUser stays TRUE over the step), no underlying socket is constructed.
C1_NoSocketAfterClose ==
    [][(closedByUser /\ closedByUser') => NumCreated' = NumCreated]_vars

\* C2: after a reconnect attempt failed (the reopen raised inside the timer),
\* with auto-reconnect enabled and no close(), a further attempt is eventually
\* pending (or a socket is in place, or the owner has closed): the transport
\* never silently gives up.
C2_RetryAfterFailedAttempt ==
    [](( /\ lastOp.op = "reconnectTimer"
         /\ lastOp.result = "failed"
         /\ autoReconnect
         /\ ~closedByUser )
       => <>(closedByUser \/ timers > 0 \/ LiveSockets # {}))

\* C3: the delay used to schedule a reconnect after N attempts without an open
\* in between is min(max, base * factor^N), and an open resets it to base.
C3_BackoffSchedule ==
    /\ (lastOp.op = "socketClose" /\ lastOp.result = "scheduled")
          => lastOp.delay * Pow(BackoffFactorDen, fails)
               = Min(MaxReconnectDelayMs * Pow(BackoffFactorDen, fails),
                     ReconnectDelayMs * Pow(BackoffFactorNum, fails))
    /\ lastOp.op = "socketOpen" => reconnectDelay = ReconnectDelayMs

\* C4: reconnection is sequential: pending reconnect timers plus wired sockets
\* that have not closed yet never exceed one.
C4_AtMostOneInFlight ==
    timers + Cardinality(LiveSockets) <= 1

\* C5: connect() called while the current socket is Connecting or Open does not
\* leave two sockets delivering events to the transport.
C5_ConnectIdempotent ==
    [][(/\ ws # 0
        /\ socks[ws] \in {0, 1}
        /\ lastOp'.op = "connect")
       => Cardinality(LiveSockets') <= 1]_vars

\* C6: a socket that is Open and has received no frame for longer than the idle
\* timeout is eventually force-closed (it leaves Open) unless a frame arrives.
C6_IdleConnectionForceClosed ==
    \A s \in SockIds :
        [](( socks[s] = ReadyStateOpen /\ elapsed > IdleTimeoutMs )
           => <>( socks[s] # ReadyStateOpen \/ elapsed <= IdleTimeoutMs ))

\* C7: when the reconnect timer fires, `reconnected` is emitted only for an
\* attempt whose socket is Open, with the delay reset to base; a failed attempt
\* emits `reconnect_failed` and grows the delay by the factor (capped).
C7_ReconnectOutcome ==
    [][lastOp'.op = "reconnectTimer" =>
         /\ "reconnected" \in Range(emitted') =>
               /\ ws' # 0
               /\ socks'[ws'] = ReadyStateOpen
               /\ reconnectDelay' = ReconnectDelayMs
         /\ "reconnect_failed" \in Range(emitted') =>
               reconnectDelay' = NextDelay(reconnectDelay)]_vars

\* C8: send(frame) raises the not-open error and hands nothing to a socket in
\* every state other than Open; in Open it hands the frame to the current socket.
C8_SendOnlyWhenOpen ==
    lastOp.op = "send" =>
        IF TransportState = "Open"
        THEN lastOp.result = "ok" /\ lastOp.sock = ws
        ELSE lastOp.result = "threw" /\ lastOp.sock = 0

C8_Witness ==
    /\ lastOp.op = "send"
    /\ lastOp.result = "threw"
    /\ TransportState = "Reconnecting"
    /\ \E s \in SockIds : socks[s] = 3

\* C9: no transport fault is raised to the caller of connect() or of the
\* client's send(); it is surfaced as a notification only.
C9_NoFaultRaisedToCaller ==
    lastOp.op \in {"connect", "clientSend"} => lastOp.result # "threw"

\* ---------------------------------------------------------------------------
\* Claims about the server
\* ---------------------------------------------------------------------------

\* C10: with a validator configured, a frame of any type other than auth from
\* a connection that is not authenticated makes the server send exactly one
\* error envelope to that connection and nothing else: no handler is invoked,
\* no pong is sent, and the subscription sets, the registry and the simulator
\* flag are unchanged.
C10_UnauthenticatedIsRejected ==
    ( /\ validateAuth
      /\ srvOp.op = "message"
      /\ srvOp.type # "auth"
      /\ ~srvOp.authed )
    => /\ Len(sent) = 1
       /\ sent[1].to = srvOp.id
       /\ sent[1].type = "error"
       /\ invoked = <<>>
       /\ ~srvOp.changed

C10_Witness ==
    /\ validateAuth
    /\ srvOp.op = "message"
    /\ srvOp.type = "telemetry"
    /\ srvOp.result = "unauthenticated"
    /\ ~srvOp.authed
    /\ listeners["telemetry"] > 0
    /\ sent = <<Msg(srvOp.id, "error", "unauthenticated", 0)>>

\* C11: an auth envelope on an unauthenticated connection calls the validator
\* once; if the validator accepts, the connection becomes authenticated and one
\* status envelope is sent; if it rejects, one error envelope is sent, the
\* socket is closed (1008) and the connection stays unauthenticated. The auth
\* envelope is never handed to user handlers.
C11_AuthOutcome ==
    ( /\ srvOp.op = "message"
      /\ srvOp.type = "auth"
      /\ ~srvOp.authed )
    => /\ Len(srvOp.validated) = 1
       /\ invoked = <<>>
       /\ Len(sent) = 1
       /\ sent[1].to = srvOp.id
       /\ IF Validator(srvOp.validated[1])
          THEN /\ clients[srvOp.id].authed
               /\ sent[1].type = "status"
          ELSE /\ ~clients[srvOp.id].authed
               /\ clients[srvOp.id].st = "closing"
               /\ sent[1].type = "error"

C11_Witness ==
    /\ srvOp.op = "message"
    /\ srvOp.type = "auth"
    /\ srvOp.validated = <<"wrong">>
    /\ clients[srvOp.id].st = "closing"
    /\ sent = <<Msg(srvOp.id, "error", "auth failed", 0)>>
    /\ \E j \in ClientIds : clients[j].authed /\ clients[j].st = "open"

\* the auth envelope in the documented wire format: the token at the top level
\* of the envelope and no data field
DocumentedAuthFrame ==
    [json |-> TRUE, typed |-> TRUE,
     obj |-> [Env0 EXCEPT !.type = "auth", !.topToken = GoodToken]]

\* C12: for an auth envelope in the documented wire format { type: "auth",
\* token: T } the validator is called with T, so a validator that accepts T
\* authenticates the connection.
C12_DocumentedAuthFormat ==
    [][\A id \in ClientIds :
          ( /\ validateAuth
            /\ id \in Registry
            /\ ~clients[id].authed
            /\ Message(id, DocumentedAuthFrame) )
          => /\ srvOp'.validated = <<GoodToken>>
             /\ clients'[id].authed]_vars

\* C13: while the simulator flag is false, every request envelope of an
\* authenticated connection whose kind is on the gated list (AircraftData,
\* Weather, Landing, Airport) produces exactly one error envelope to the
\* requesting connection and is not handed to the router: no handler runs and
\* there is no unhandled notification.
C13_GatedRequestBlocked ==
    ( /\ srvOp.op = "message"
      /\ srvOp.type = "request"
      /\ srvOp.authed
      /\ srvOp.kind \in {"AircraftData", "Weather", "Landing", "Airport"}
      /\ ~simulatorConnected )
    => /\ sent = <<Msg(srvOp.id, "error", "Simulator isnt connected", 0)>>
       /\ invoked = <<>>
       /\ srvOp.result = "blocked"
       /\ ~srvOp.changed

C13_Witness ==
    /\ srvOp.op = "message"
    /\ srvOp.type = "request"
    /\ srvOp.kind = "AircraftData"
    /\ srvOp.authed
    /\ validateAuth
    /\ ~simulatorConnected
    /\ srvOp.result = "blocked"
    /\ Len(sent) = 1

\* C14: a request for NearestAirportData received while the simulator is not
\* connected is blocked: the server answers with the error 'Simulator isnt
\* connected' and does not route the request.
C14_NearestAirportBlocked ==
    ( /\ srvOp.op = "message"
      /\ srvOp.type = "request"
      /\ srvOp.authed
      /\ srvOp.kind = "NearestAirportData"
      /\ ~simulatorConnected )
    => /\ sent = <<Msg(srvOp.id, "error", "Simulator isnt connected", 0)>>
       /\ srvOp.result = "blocked"

\* the status code a Status frame states, in either documented format (code
\* in data, or code in data.data)
StatedCode(f) ==
    IF f.json /\ f.typed /\ f.obj.type = "Status" /\ f.obj.data = "object"
    THEN IF f.obj.code # "none" THEN f.obj.code ELSE f.obj.innerCode
    ELSE "none"

\* C15: the simulator flag is false initially and has a single writer: it
\* becomes true only by processing a Status envelope with the connected code,
\* false only by processing one with the disconnected code; every other event
\* (a Status with an unrecognized code, any other envelope, accept, close)
\* leaves it unchanged and raises no error.
C15_FlagSingleWriter ==
    /\ ~simulatorConnected
    /\ [][ /\ (simulatorConnected' /\ ~simulatorConnected) =>
                 \E id \in ClientIds, f \in Frames :
                     Message(id, f) /\ StatedCode(f) = MsfsConnected
           /\ (simulatorConnected /\ ~simulatorConnected') =>
                 \E id \in ClientIds, f \in Frames :
                     Message(id, f) /\ StatedCode(f) = MsfsDisconnected
           /\ \A id \in ClientIds, f \in Frames :
                 ( Message(id, f)
                   /\ StatedCode(f) \notin {MsfsConnected, MsfsDisconnected} )
                 => /\ simulatorConnected' = simulatorConnected
                    /\ srvOp'.result # "threw" ]_vars

\* C20: for an authenticated connection subscribe and unsubscribe are
\* intercepted before user routing: subscribe with stream s makes s a member of
\* the connection's subscription set, unsubscribe removes it, each is
\* acknowledged with exactly one status envelope, and neither reaches a user
\* handler or the unhandled path.
C20_SubscriptionBuiltins ==
    ( /\ srvOp.op = "message"
      /\ srvOp.type \in {"subscribe", "unsubscribe"}
      /\ srvOp.authed )
    => /\ Len(sent) = 1
       /\ sent[1].to = srvOp.id
       /\ sent[1].type = "status"
       /\ invoked = <<>>
       /\ srvOp.result \notin {"routed", "unhandled", "threw"}
       /\ (srvOp.type = "subscribe" /\ srvOp.stream # "none")
             => srvOp.stream \in clients[srvOp.id].subs
       /\ (srvOp.type = "unsubscribe" /\ srvOp.stream # "none")
             => srvOp.stream \notin clients[srvOp.id].subs
       /\ srvOp.stream = "none" => ~srvOp.changed

C20_Witness ==
    /\ validateAuth
    /\ srvOp.op = "message"
    /\ srvOp.type = "unsubscribe"
    /\ srvOp.stream = "telemetry"
    /\ srvOp.authed
    /\ srvOp.changed
    /\ clients[srvOp.id].subs = {}
    /\ sent = <<Msg(srvOp.id, "status", "unsubscribed", 0)>>
    /\ listeners["telemetry"] > 0

\* ---------------------------------------------------------------------------
\* Claims about the registry operations
\* ---------------------------------------------------------------------------

\* the connections that the last operation called ws.send for
SentTo == {sent[k].to : k \in 1 .. Len(sent)}

\* C16: push(event, data) sends to exactly the connections whose subscription
\* set contains the event at the moment of the call, once each, and to no
\* other connection, whatever subscribe and unsubscribe frames of other
\* connections came before.
C16_PushToSubscribersOnly ==
    srvOp.op = "push"
    => /\ SentTo = {i \in Registry : srvOp.type \in clients[i].subs}
       /\ Len(sent) = Cardinality(SentTo)
       /\ \A k \in 1 .. Len(sent) : sent[k].type = srvOp.type

C16_Witness ==
    /\ srvOp.op = "push"
    /\ srvOp.type = "telemetry"
    /\ \E i, j \in Registry :
          /\ clients[i].st = "open" /\ clients[i].subs = {"telemetry"}
          /\ clients[j].st = "open" /\ clients[j].subs = {}
          /\ sent = <<Msg(i, "telemetry", "payload", 0)>>

\* C17: after ctx.close() has been requested for a connection it is out of
\* the registry at once: the next inbound frame of it is not dispatched to
\* handlers and the next broadcast or push does not target it, although the
\* socket close has not completed.
C17_CtxCloseLeavesRegistry ==
    [][\A id \in ClientIds :
          /\ CtxClose(id) => id \notin Registry'
          /\ ( /\ srvOp.op = "ctxClose"
               /\ srvOp.id = id
               /\ clients[id].st = "closing" )
             => /\ (srvOp'.op = "message" /\ srvOp'.id = id) => invoked' = <<>>
                /\ srvOp'.op \in {"broadcast", "push"}
                      => \A k \in 1 .. Len(sent') : sent'[k].to # id]_vars

C19_BroadcastToAll ==
    srvOp.op = "broadcast"
    => /\ SentTo = Registry
       /\ Len(sent) = Cardinality(Registry)

C19_Witness ==
    /\ srvOp.op = "broadcast"
    /\ Len(sent) = 2
    /\ \E i, j \in Registry :
          /\ clients[i].subs = {} /\ clients[j].subs = {"telemetry"}
          /\ clients[i].st = "open" /\ clients[j].st = "open"
          /\ SentTo = {i, j}

\* the handlers called by the last dispatch with (TRUE) or without (FALSE) the
\* connection context, in the order of the calls
CalledHandlers(withCtx) ==
    LET calls == SelectSeq(invoked, LAMBDA c : c.ctx = withCtx)
    IN [i \in 1 .. Len(calls) |-> calls[i].h]

\* C21: an authenticated connection's ping is answered, when auto-pong is on,
\* by exactly one pong to that connection carrying the ping's ts (the clock, 0,
\* when the ping has none) and reaches no user handler; when auto-pong is off
\* nothing is sent and the ping goes through route()
C21_AutoPong ==
    (srvOp.op = "message" /\ srvOp.type = "ping" /\ srvOp.authed)
    => IF autoPong
       THEN /\ sent = <<Msg(srvOp.id, "pong", "none", srvOp.ts)>>
            /\ invoked = <<>>
            /\ srvOp.result = "pong"
            /\ ~srvOp.changed
       ELSE /\ sent = <<>>
            /\ srvOp.result \in {"routed", "unhandled"}

C21_Witness ==
    /\ srvOp.op = "message" /\ srvOp.type = "ping" /\ srvOp.authed
    /\ autoPong
    /\ srvOp.ts = 7
    /\ sent = <<Msg(srvOp.id, "pong", "none", 7)>>

\* C22: a dispatch to an event with several handlers calls every handler, in
\* registration order (handler i is the i-th registered), in each of the two
\* passes route() makes
C22_RegistrationOrder ==
    (srvOp.op = "message" /\ srvOp.result = "routed")
    => /\ CalledHandlers(FALSE) = [i \in 1 .. listeners[srvOp.type] |-> i]
       /\ CalledHandlers(TRUE) = [i \in 1 .. listeners[srvOp.type] |-> i]

C22_Witness ==
    /\ srvOp.op = "message" /\ srvOp.result = "routed"
    /\ listeners[srvOp.type] = 2
    /\ CalledHandlers(TRUE) = <<1, 2>>

\* C23: when a handler raises during a dispatch, every handler of the event is
\* still called, route() returns normally, the registry and the simulator flag
\* are as before and the sender is still registered
C23_RaisingHandlerCaught ==
    (srvOp.op = "message" /\ srvOp.raiser > 0)
    => /\ srvOp.result = "routed"
       /\ \A h \in 1 .. listeners[srvOp.type] :
             /\ \E k \in 1 .. Len(invoked) : invoked[k].h = h /\ invoked[k].ctx
             /\ \E k \in 1 .. Len(invoked) : invoked[k].h = h /\ ~invoked[k].ctx
       /\ ~srvOp.changed
       /\ srvOp.id \in Registry

C23_Witness ==
    /\ srvOp.op = "message" /\ srvOp.raiser = 1
    /\ listeners[srvOp.type] = 2
    /\ srvOp.result = "routed"
    /\ Len(invoked) = 4

\* the last frame was handed to route(): it passed the authentication gate,
\* the built-ins and the simulator gate
Routed == srvOp.op = "message" /\ srvOp.result \in {"routed", "unhandled", "threw"}

\* C24: every envelope handed to route() whose type has no handler produces
\* exactly one unhandled notification, carrying the envelope's type and data
C24_UnhandledNotified ==
    (Routed /\ ~HasListeners(srvOp.type))
    => srvOp.unhandled = <<[type |-> srvOp.type, data |-> srvOp.data,
                            clientId |-> srvOp.id]>>

\* a frame that is not one of the state-changing built-ins: a malformed frame
\* or an envelope of any other type and payload shape
ProtocolFrame(f) ==
    defaultParseMessage(f).type \notin {"auth", "subscribe", "unsubscribe"}

\* C26: processing a malformed frame or an envelope of any payload shape raises
\* nothing out of the message listener and leaves the sender registered with
\* its authenticated flag and its subscriptions as they were
C26_ProtocolFaultTolerated ==
    [][\A id \in ClientIds, f \in Frames :
          (Message(id, f) /\ ProtocolFrame(f))
          => /\ srvOp'.result # "threw"
             /\ id \in Registry'
             /\ clients'[id] = clients[id]]_vars

\* C27: an accepted connection gets an id that no connection had before and
\* that is larger than every id handed out so far, closed connections included
C27_IdsNeverReused ==
    [][srvOp'.op = "accept"
       => /\ clients[srvOp'.id].st = "none"
          /\ clients'[srvOp'.id].st = "open"
          /\ \A j \in ClientIds : clients[j].st # "none" => j < srvOp'.id]_vars

C27_Witness ==
    /\ srvOp.op = "accept"
    /\ srvOp.id = 2
    /\ clients[1].st = "gone"
    /\ clients[2].st = "open"

\* C28: a frame of one connection leaves the record of every other connection
\* as it was, and the registry's membership changes only by an accept, which
\* inserts the new id, and by a socket close, which removes the closed id
C28_NoCrossConnectionMutation ==
    [][/\ srvOp'.op = "message"
          => \A j \in ClientIds \ {srvOp'.id} : clients'[j] = clients[j]
       /\ Registry' # Registry
          => \/ srvOp'.op = "accept" /\ Registry' = Registry \cup {srvOp'.id}
             \/ srvOp'.op = "clientClose" /\ Registry' = Registry \ {srvOp'.id}]_vars

C28_Witness ==
    /\ srvOp.op = "message" /\ srvOp.result = "authOk"
    /\ \E j \in Registry \ {srvOp.id} : ~clients[j].authed
    /\ clients[srvOp.id].authed

\* C25: a frame whose text is not JSON, or whose JSON value has no string type,
\* is decoded without an exception into an envelope of type raw whose data is
\* the parsed value or, when the text is not JSON, the text; by both decoders
C25_DecodeTotal ==
    LET text == rawToString(decRaw)
        parsed == JsonParse(text)
    IN (decOut.by # "none" /\ (~parsed.ok \/ ~HasStringType(parsed)))
       => /\ ~decOut.threw
          /\ decOut.env.type = "raw"
          /\ decOut.env.data = IF parsed.ok
                               THEN [value |-> parsed.value, text |-> <<>>]
                               ELSE [value |-> "text", text |-> text]

\* C29: every open socket is the current client, so at most one client is
\* served; the current client, when there is one, is the socket accepted last
\* and its close event has not happened; an accept that finds a client asks
\* exactly that socket to close with code 1000 and makes the new socket the
\* current client
C29_SingleClient ==
    /\ \A j \in ConnIds : conns[j] = "open" => client = j
    /\ client # 0 => (client = nextConn - 1 /\ conns[client] \in {"open", "closing"})
    /\ simOp.op = "accept"
       => /\ client = simOp.id
          /\ simOp.id = nextConn - 1
          /\ simOp.prev # 0
             => /\ simOp.closes = <<[id |-> simOp.prev, code |-> 1000]>>
                /\ conns[simOp.prev] \in {"closing", "closed"}
          /\ simOp.prev = 0 => simOp.closes = <<>>

C29_Witness ==
    /\ simOp.op = "accept"
    /\ simOp.prev = 1
    /\ client = 2
    /\ conns[1] = "closing"
    /\ conns[2] = "open"

\* C30: send, ping and requestAircraftData return true exactly when there is a
\* current client whose socket is open and the frame was handed to it; they
\* return false otherwise; without a client nothing is sent and no callback
\* runs; the call changes nothing of the server and returns a boolean always
C30_SendReturnsWhetherSent ==
    [][simOp'.op \in SendMethods
       => /\ simOp'.result \in {"true", "false"}
          /\ simOp'.result = "true"
             <=> /\ client # 0
                 /\ conns[client] = "open"
                 /\ simOp'.frames = <<[to |-> client, method |-> simOp'.op]>>
          /\ simOp'.result = "false" => simOp'.frames = <<>>
          /\ client = 0 => (simOp'.result = "false" /\ simOp'.calls = <<>>)
          /\ UNCHANGED <<client, conns, nextConn, listening, simulatorStatus>>]_vars

C30_Witness ==
    /\ simOp.op = "ping"
    /\ simOp.result = "false"
    /\ client = 0
    /\ conns[1] = "closed"
    /\ simOp.frames = <<>>

\* a Status frame in one of the two documented formats: the code directly in
\* data, the message in data (Format 1) or at the top level (Format 2)
DocumentedStatus(f) ==
    /\ f.json /\ f.typed
    /\ f.obj.type = "Status" /\ f.obj.data = "object"
    /\ f.obj.code \in {MsfsConnected, MsfsDisconnected}
    /\ f.obj.message \in {"data", "top"}

\* C31: a Status frame in a documented format from a connection past the
\* authentication gate is processed without an exception and sets the
\* simulator flag to true for code 600 and to false for code 601, with or
\* without a Status handler
C31_DocumentedStatusTracked ==
    [][\A id \in ClientIds, f \in Frames :
          (Message(id, f) /\ DocumentedStatus(f) /\ clients[id].authed)
          => /\ srvOp'.result # "threw"
             /\ simulatorConnected' = (f.obj.code = MsfsConnected)]_vars

\* how many times the last operation emitted the event
EmittedCount(ev) == Cardinality({k \in 1 .. Len(emitted) : emitted[k] = ev})

\* C32: whichever listener API the socket exposes, one inbound frame is emitted
\* as exactly one message event, and one socket close as exactly one close
\* event with at most one reconnect attempt scheduled
C32_SocketEventHandledOnce ==
    /\ lastOp.op = "socketMessage" => emitted = <<"message">>
    /\ lastOp.op = "socketClose"
       => /\ EmittedCount("close") = 1
          /\ EmittedCount("reconnect_attempt") <= 1

\* C33: a routed envelope calls every handler of its type exactly once, with
\* the payload and the context of the sending connection
C33_HandlerInvokedOnce ==
    (srvOp.op = "message" /\ srvOp.result = "routed")
    => invoked = [i \in 1 .. listeners[srvOp.type] |->
                     [ev |-> srvOp.type, h |-> i, ctx |-> TRUE]]

\* the server lifecycle events
ServerEvents == {"listening", "connection", "disconnect"}

\* C34: a handler registered for a server lifecycle event is called only by
\* the lifecycle event itself (an accept, a socket close, the server start),
\* never by the processing of a frame
C34_LifecycleNotSpoofable ==
    (\E k \in 1 .. Len(invoked) : invoked[k].ev \in ServerEvents)
    => srvOp.op \in {"accept", "clientClose"}

\* C35: with a validator configured, broadcast, push and sendTo hand a payload
\* only to connections that have authenticated
C35_NoPayloadBeforeAuth ==
    (validateAuth /\ srvOp.op \in {"broadcast", "push", "sendTo"})
    => \A k \in 1 .. Len(sent) : clients[sent[k].to].authed

\* C36: a connection whose authentication was rejected (its socket is closing
\* with 1008, the close has not completed) is not authenticated, and no frame
\* of it reaches route()
C36_RejectedStaysRejected ==
    \A i \in ClientIds :
        clients[i].st = "closing"
        => /\ ~clients[i].authed
           /\ ~(Routed /\ srvOp.id = i)

\* C37: a client with a token sends the auth message once when its current
\* socket opens and it is handed to the open socket; the reconnect timer sends
\* nothing, so no send fails on a socket that is still connecting
C37_AuthSentWhenOpen ==
    hasToken
    => /\ (lastOp.op = "socketOpen" /\ lastOp.sock = ws)
          => clientSent = <<[kind |-> "auth", result |-> "ok"]>>
       /\ lastOp.op = "reconnectTimer"
          => /\ clientSent = <<>>
             /\ \A k \in 1 .. Len(clientEvents) : clientEvents[k] # "error:send failed"

\* C38: there is never more than one heartbeat timer, and between disconnect()
\* and the next connect() there is none and no heartbeat tick happens
C38_HeartbeatStopsOnDisconnect ==
    /\ hbTimers <= 1
    /\ closedByUser => (hbTimers = 0 /\ ~heartbeatInterval /\ lastOp.op # "heartbeat")

\* C39: at most one client has had onConnection without its onDisconnect,
\* and once a client's socket has closed its onDisconnect has been called,
\* also for a client that was evicted or closed by close()
C39_NotificationsBalanced ==
    /\ Cardinality({j \in ConnIds : notified[j] = "onConnection"}) <= 1
    /\ \A j \in ConnIds : conns[j] = "closed" => notified[j] = "onDisconnect"

\* C40: the simulator status reads connected only while there is a current
\* client whose socket is open
C40_SimulatorStatusNeedsClient ==
    simulatorStatus.connected => (client # 0 /\ conns[client] = "open")

====
